---- MODULE Spec2Model ----
(***************************************************************************)
(* A model of karmadactl get (pkg/karmadactl/get/get.go): the fan-out of   *)
(* one query to the Karmada control plane and to the member clusters, the  *)
(* aggregation of the per-cluster results and errors, and the              *)
(* reconstruction of the table rows with the CLUSTER and ADOPTION cells.    *)
(*                                                                         *)
(* Six specifications share the variables below:                           *)
(*   Spec        the whole command: Complete, Validate, Run                *)
(*   SpecRow     the row reconstruction (reconstructionRow, reconstructObj)*)
(*   SpecRender  printObjs called again and again in one process           *)
(*   SpecWatch   watch and watchMultiClusterObj on collected watch handles *)
(*   SpecList    printObjs called once, with printers that may not build   *)
(*   SpecCancel  the watch with one termination signal, fairly scheduled   *)
(***************************************************************************)
EXTENDS Integers, Sequences, FiniteSets, TLC

VARIABLES
    g,          \* CommandGetOptions: the flags and TargetMemberClusters
    registry,   \* the Cluster objects registered in the control plane
    pc,         \* position of the main goroutine (RunE)
    idx,        \* loop index of Run over TargetMemberClusters
    task,       \* the getObjInfo calls: one per target
    mux,        \* sync.Mutex of Run: 0 when free, else the holder
    objs,       \* var objs []Obj of Run
    watchObjs,  \* var watchObjs []WatchObj of Run
    allErrs,    \* var allErrs []error of Run
    sent,       \* requests issued to the targets so far
    out,        \* what was written to g.Out
    errOut,     \* what was written to g.ErrOut
    runErr,     \* the error RunE returns
    podColumns, \* package variable podColumns
    rowIn,      \* SpecRow: the record handed to the row reconstruction
    rowOut,     \* SpecRow: what the row reconstruction returned
    renders,    \* SpecRender: the renders performed so far
    outputObjects, \* the bool of watch that skipPrinter.output points to
    sess,       \* the goroutines of watchMultiClusterObj: one per WatchObj
    hrPrinter,  \* the human readable printer that watch got from ToPrinter
    writer,     \* the tab writer of watch: what is not yet flushed
    mcWriter    \* the tab writer of watchMultiClusterObj

vars == <<g, registry, pc, idx, task, mux, objs, watchObjs, allErrs, sent,
          out, errOut, runErr, podColumns, rowIn, rowOut, renders,
          outputObjects, sess, hrPrinter, writer, mcWriter>>

cmdVars == <<g, registry, pc, idx, task, mux, objs, watchObjs, allErrs, sent,
             out, errOut, runErr>>

watchVars == <<outputObjects, sess, hrPrinter, writer, mcWriter>>

-----------------------------------------------------------------------------
(* Bounds *)

\* rows of one table
MaxRows == 2
\* cells of one original row
MaxCells == 3
\* length of the --clusters list
MaxClusters == 2
\* printObjs calls in one process
MaxRenders == 2
\* handles in watchObjs when watch starts
MaxWatched == 2
\* events one subscription delivers
MaxEvents == 2
\* events one subscription delivers under SpecCancel
MaxCancelEvents == 1
\* records Run hands to the one printObjs call of a list
MaxListed == 3

-----------------------------------------------------------------------------
(* Constants of the program *)

printColumnClusterNum == 1

managedByKarmada == "Y"
notManagedByKaramda == "N"
notApplicable == "-"

\* karmadautil.ManagedByKarmadaLabel and its value
ManagedByKarmadaLabel == "karmada.io/managed"
ManagedByKarmadaLabelValue == "true"

\* the name Run gives the control plane
KarmadaName == "Karmada"

\* watch.Added and the other event types
Added == "ADDED"
EventTypes == {"ADDED", "MODIFIED", "DELETED"}

-----------------------------------------------------------------------------
(* Sequences *)

Range(s) == {s[i] : i \in 1..Len(s)}

SeqsUpTo(S, n) == UNION {[1..k -> S] : k \in 0..n}

RECURSIVE SumSeq(_)
SumSeq(s) == IF s = <<>> THEN 0 ELSE Head(s) + SumSeq(Tail(s))

RECURSIVE Concat(_)
Concat(ss) == IF ss = <<>> THEN <<>> ELSE Head(ss) \o Concat(Tail(ss))

-----------------------------------------------------------------------------
(* Documents, rows and tables returned by a cluster *)

LabelKeys == {ManagedByKarmadaLabel, "app"}
LabelValues == {ManagedByKarmadaLabelValue, "false"}

\* metadata.labels of a document
LabelMaps == UNION {[S -> LabelValues] : S \in SUBSET LabelKeys}

\* TableRow.Object.Raw: bytes that parse to a document with labels, or not
RawDocs == {[parses |-> TRUE, labels |-> l] : l \in LabelMaps}
             \cup {[parses |-> FALSE, labels |-> <<>>]}

\* unstructured.Unstructured.UnmarshalJSON
UnmarshalJSON(raw) ==
    IF raw.parses THEN [err |-> FALSE, labels |-> raw.labels]
    ELSE [err |-> TRUE, labels |-> <<>>]

\* the cells the server printed for one row of n columns: the name first
CellNames == <<"name", "ready", "status", "restarts", "age", "ip">>
OrigCells(n) == SubSeq(CellNames, 1, n)

ColumnNames == <<"NAME", "READY", "STATUS", "RESTARTS", "AGE", "IP">>
OrigColumns(n) == [i \in 1..n |-> [Name |-> ColumnNames[i], Priority |-> 0]]

\* a metav1.Table as a cluster returns it: n columns, one row per document
ServerTable(n, docs) ==
    [form |-> "table",
     ColumnDefinitions |-> OrigColumns(n),
     Rows |-> [i \in 1..Len(docs) |-> [Cells |-> OrigCells(n), Object |-> docs[i]]]]

\* an object that is no *unstructured.Unstructured, and one that is but does
\* not convert to a metav1.Table
TypedObject == [form |-> "typed", ColumnDefinitions |-> <<>>, Rows |-> <<>>]
MalformedObject == [form |-> "malformed", ColumnDefinitions |-> <<>>, Rows |-> <<>>]

\* meta.RESTMapping of the resource types of the model; rank orders
\* Mapping.Resource.String(): "/v1, Resource=nodes" < "/v1, Resource=pods"
\* < "apps/v1, Resource=deployments"
Mappings ==
    [nodes |-> [Resource |-> "nodes", GroupVersionKind |-> "Node", namespaced |-> FALSE, rank |-> 1],
     pods |-> [Resource |-> "pods", GroupVersionKind |-> "Pod", namespaced |-> TRUE, rank |-> 2],
     deployments |-> [Resource |-> "deployments", GroupVersionKind |-> "Deployment", namespaced |-> TRUE, rank |-> 3]]

\* a nil *meta.RESTMapping
NilMapping == [Resource |-> "", GroupVersionKind |-> "", namespaced |-> FALSE, rank |-> 0]

-----------------------------------------------------------------------------
(* Row reconstruction *)

\* the adoption cell of a member cluster's document (the test on
\* unObj.GetLabels() in reconstructionRow and in reconstructObj)
adoptionCell(labels) ==
    IF ManagedByKarmadaLabel \in DOMAIN labels
       /\ labels[ManagedByKarmadaLabel] = ManagedByKarmadaLabelValue
    THEN managedByKarmada ELSE notManagedByKaramda

\* the body of the row loop of reconstructionRow, get.go 594-618
reconstructionRowCells(obj, row) ==
    LET cells == <<row.Cells[1], obj.Cluster>> \o Tail(row.Cells)
        unObj == UnmarshalJSON(row.Object)
    IN  IF unObj.err THEN cells
        ELSE IF obj.IsControlPlane THEN Append(cells, notApplicable)
        ELSE Append(cells, adoptionCell(unObj.labels))

\* reconstructionRow: the rows of every record of one group, or the error
\* of the first record that does not decode; table is the table the
\* records are decoded into, one after the other
RECURSIVE reconstructionRowFrom(_, _, _, _)
reconstructionRowFrom(os, ix, allTableRows, table) ==
    IF ix > Len(os)
    THEN [err |-> "", rows |-> allTableRows,
          mapping |-> IF os = <<>> THEN NilMapping ELSE os[Len(os)].Info.Mapping,
          table |-> table]
    ELSE LET o == os[ix]
             t == o.Info.Object
         IN  IF t.form = "typed"
             THEN [err |-> "attempt to decode non-Unstructured object",
                   rows |-> <<>>, mapping |-> NilMapping, table |-> table]
             ELSE IF t.form = "malformed"
             THEN [err |-> "cannot convert to Table",
                   rows |-> <<>>, mapping |-> NilMapping, table |-> table]
             ELSE LET rows == [r \in 1..Len(t.Rows) |->
                                 [Cells |-> reconstructionRowCells(o, t.Rows[r]),
                                  Object |-> t.Rows[r].Object]]
                  IN  reconstructionRowFrom(os, ix + 1, allTableRows \o rows,
                          [ColumnDefinitions |-> t.ColumnDefinitions, Rows |-> rows])

reconstructionRow(os) ==
    reconstructionRowFrom(os, 1, <<>>, [ColumnDefinitions |-> <<>>, Rows |-> <<>>])

\* setNoAdoption: the package variable podColumns after the call
setNoAdoption(mapping, cols) ==
    IF mapping # NilMapping /\ mapping.Resource = "pods"
    THEN [cols EXCEPT ![printColumnClusterNum + 1].Priority = 1]
    ELSE cols

eventColumn == [Name |-> "EVENT", Priority |-> 0]

\* setColumnDefinition: the ColumnDefinitions of the table after the call
setColumnDefinition(defs, cols, outputWatchEvents) ==
    IF Len(defs) > 0
    THEN (IF outputWatchEvents THEN <<eventColumn>> ELSE <<>>)
         \o <<defs[1], cols[1]>> \o Tail(defs) \o Tail(cols)
    ELSE defs

\* the body of the row loop of reconstructObj, get.go 637-658
reconstructObjCells(row, cluster, event, outputWatchEvents) ==
    LET cells == (IF outputWatchEvents THEN <<event>> ELSE <<>>)
                 \o <<row.Cells[1], cluster>> \o Tail(row.Cells)
        unObj == UnmarshalJSON(row.Object)
    IN  IF unObj.err THEN cells
        ELSE Append(cells, adoptionCell(unObj.labels))

\* reconstructObj: the table of one watched object or event, the error if
\* it does not decode, and podColumns after the call
reconstructObj(obj, mapping, cluster, event, outputWatchEvents, cols) ==
    IF obj.form = "typed"
    THEN [err |-> "attempt to decode non-Unstructured object",
          ColumnDefinitions |-> <<>>, Rows |-> <<>>, podColumns |-> cols]
    ELSE IF obj.form = "malformed"
    THEN [err |-> "cannot convert to Table",
          ColumnDefinitions |-> <<>>, Rows |-> <<>>, podColumns |-> cols]
    ELSE LET cols2 == setNoAdoption(mapping, cols)
         IN  [err |-> "",
              ColumnDefinitions |->
                  setColumnDefinition(obj.ColumnDefinitions, cols2, outputWatchEvents),
              Rows |-> [r \in 1..Len(obj.Rows) |->
                          [Cells |-> reconstructObjCells(obj.Rows[r], cluster, event,
                                                         outputWatchEvents),
                           Object |-> obj.Rows[r].Object]],
              podColumns |-> cols2]

-----------------------------------------------------------------------------
(* Options, targets and the state before the command starts *)

\* the member clusters of the model; member9 is never registered
MemberNames == {"member1", "member2"}
ClusterNames == MemberNames \cup {"member9"}

\* options.KarmadaControlPlane, options.Members, options.All
KarmadaControlPlane == "karmada"
Members == "members"
All == "all"
OperationScopes == {KarmadaControlPlane, Members, All}

\* options.ContainKarmadaScope, options.ContainMembersScope
ContainKarmadaScope(scope) == scope \in {KarmadaControlPlane, All}
ContainMembersScope(scope) == scope \in {Members, All}

\* NewCommandGetOptions and the flag defaults of NewCmdGet.  NoHeaders is
\* the field of CommandGetOptions, which no flag is bound to;
\* PrintNoHeaders is the value of --no-headers, which PrintFlags registers
\* and hands to the printers
DefaultOptions ==
    [Clusters |-> <<>>, OperationScope |-> KarmadaControlPlane,
     TargetMemberClusters |-> <<>>,
     Output |-> "", ShowLabels |-> FALSE,
     IsHumanReadablePrinter |-> FALSE,
     Watch |-> FALSE, WatchOnly |-> FALSE, OutputWatchEvents |-> FALSE,
     AllNamespaces |-> FALSE, NoHeaders |-> FALSE, PrintNoHeaders |-> FALSE,
     IgnoreNotFound |-> FALSE]

\* var podColumns
InitPodColumns == <<[Name |-> "CLUSTER", Priority |-> 0],
                    [Name |-> "ADOPTION", Priority |-> 0]>>

NoRowIn == [mode |-> "none", Cluster |-> "", IsControlPlane |-> FALSE,
            Mapping |-> NilMapping, Object |-> TypedObject, event |-> ""]
NoRowOut == [err |-> "", ColumnDefinitions |-> <<>>, Rows |-> <<>>]

\* the human readable printer before its first table, and the state of a
\* process that is not watching
NewHumanReadablePrinter == [lastColumns |-> <<>>, printedHeaders |-> FALSE]
WatchIdle ==
    /\ outputObjects = FALSE
    /\ sess = <<>>
    /\ hrPrinter = NewHumanReadablePrinter
    /\ writer = <<>>
    /\ mcWriter = <<>>

\* the command has not started
CmdIdle ==
    /\ registry = [ok |-> TRUE, names |-> {}]
    /\ pc = "idle"
    /\ idx = 0
    /\ task = <<>>
    /\ mux = 0
    /\ objs = <<>>
    /\ watchObjs = <<>>
    /\ allErrs = <<>>
    /\ sent = {}
    /\ out = <<>>
    /\ errOut = <<>>
    /\ runErr = "pending"

-----------------------------------------------------------------------------
(* SpecRow: the row reconstruction applied to the objects of one target *)

\* where a record comes from: Run calls getObjInfo with ("Karmada", true)
\* for the control plane and (name, false) for a member cluster
Origins == {[Cluster |-> KarmadaName, IsControlPlane |-> TRUE]}
             \cup {[Cluster |-> c, IsControlPlane |-> FALSE] : c \in MemberNames}

ServerTables == {ServerTable(n, docs) :
                    n \in 1..MaxCells, docs \in SeqsUpTo(RawDocs, MaxRows)}
ServerObjects == ServerTables \cup {TypedObject, MalformedObject}

RowMappings == {Mappings.pods, Mappings.deployments}

InitRow ==
    /\ CmdIdle
    /\ g \in {[DefaultOptions EXCEPT !.IsHumanReadablePrinter = TRUE,
                                      !.Watch = w, !.OutputWatchEvents = e] :
                 w \in BOOLEAN, e \in BOOLEAN}
    /\ ~g.Watch => ~g.OutputWatchEvents
    /\ podColumns = InitPodColumns
    /\ rowIn = NoRowIn
    /\ rowOut = NoRowOut
    /\ renders = <<>>
    /\ WatchIdle

\* printObjs hands the records of one group to reconstructionRow
ListRows ==
    /\ rowIn.mode = "none"
    /\ ~g.Watch
    /\ \E o \in Origins, m \in RowMappings, t \in ServerObjects :
         LET obj == [Cluster |-> o.Cluster, IsControlPlane |-> o.IsControlPlane,
                     Info |-> [Mapping |-> m, Object |-> t]]
             res == reconstructionRow(<<obj>>)
         IN  /\ rowIn' = [mode |-> "list", Cluster |-> o.Cluster,
                          IsControlPlane |-> o.IsControlPlane,
                          Mapping |-> m, Object |-> t, event |-> ""]
             /\ rowOut' = [err |-> res.err,
                           ColumnDefinitions |-> res.table.ColumnDefinitions,
                           Rows |-> res.rows]
    /\ UNCHANGED <<cmdVars, podColumns, renders, watchVars>>

\* watch hands the current object of watchObjs[idx] to reconstructObj
WatchInitialRows ==
    /\ rowIn.mode = "none"
    /\ g.Watch
    /\ \E o \in Origins, m \in RowMappings, t \in ServerObjects :
         LET res == reconstructObj(t, m, o.Cluster, Added, g.OutputWatchEvents,
                                   podColumns)
         IN  /\ rowIn' = [mode |-> "watch", Cluster |-> o.Cluster,
                          IsControlPlane |-> o.IsControlPlane,
                          Mapping |-> m, Object |-> t, event |-> Added]
             /\ rowOut' = [err |-> res.err,
                           ColumnDefinitions |-> res.ColumnDefinitions,
                           Rows |-> res.Rows]
             /\ podColumns' = res.podColumns
    /\ UNCHANGED <<cmdVars, renders, watchVars>>

\* the event handler of watchMultiClusterObj hands e.Object to reconstructObj
WatchEventRows ==
    /\ rowIn.mode = "none"
    /\ g.Watch
    /\ \E o \in Origins, m \in RowMappings, t \in ServerObjects, e \in EventTypes :
         LET res == reconstructObj(t, m, o.Cluster, e, g.OutputWatchEvents,
                                   podColumns)
         IN  /\ rowIn' = [mode |-> "event", Cluster |-> o.Cluster,
                          IsControlPlane |-> o.IsControlPlane,
                          Mapping |-> m, Object |-> t, event |-> e]
             /\ rowOut' = [err |-> res.err,
                           ColumnDefinitions |-> res.ColumnDefinitions,
                           Rows |-> res.Rows]
             /\ podColumns' = res.podColumns
    /\ UNCHANGED <<cmdVars, renders, watchVars>>

NextRow == ListRows \/ WatchInitialRows \/ WatchEventRows

SpecRow == InitRow /\ [][NextRow]_vars

-----------------------------------------------------------------------------
(* printObjs *)

\* multipleGVKsRequested
multipleGVKsRequested(os) ==
    IF Len(os) < 2 THEN FALSE
    ELSE \E i \in 1..Len(os) :
            os[i].Info.Mapping.GroupVersionKind # os[1].Info.Mapping.GroupVersionKind

\* shouldGetNewPrinterForMapping
shouldGetNewPrinterForMapping(printer, lastMapping, mapping) ==
    \/ printer.state = "nil"
    \/ lastMapping = NilMapping
    \/ mapping = NilMapping
    \/ mapping.Resource # lastMapping.Resource

\* checkPrintWithNamespace
checkPrintWithNamespace(opt, mapping) ==
    IF mapping # NilMapping /\ ~mapping.namespaced THEN FALSE ELSE opt.AllNamespaces

\* what the human readable printer writes for one table: the header line,
\* unless headers are off or the table has no row, then one line per row
PrintTable(opt, printer, mapping, defs, rows) ==
    (IF ~opt.PrintNoHeaders /\ Len(rows) > 0
     THEN <<[kind |-> "header", printer |-> printer,
             Resource |-> mapping.Resource, cols |-> defs]>>
     ELSE <<>>)
    \o [r \in 1..Len(rows) |->
          [kind |-> "row", printer |-> printer,
           Resource |-> mapping.Resource, cols |-> rows[r].Cells]]

\* a printer that ToPrinter built, and the two values of the variable
\* printer that hold none: nil, and the nil function of a failed ToPrinter
Printer(withNamespace, withKind) ==
    [state |-> "ok", withNamespace |-> withNamespace, withKind |-> withKind]
NilPrinter == [state |-> "nil", withNamespace |-> FALSE, withKind |-> FALSE]
NilFuncPrinter == [state |-> "nilfunc", withNamespace |-> FALSE, withKind |-> FALSE]

BlankLine == [kind |-> "blank", printer |-> NilPrinter, Resource |-> "", cols |-> <<>>]

\* w.Flush(): the tab writer hands its buffer to separatorWriterWrapper.Write,
\* which writes one blank line first when it is ready and the buffer is not
\* empty, and then to trackingWriterWrapper.Write, which counts
Flush(st) ==
    LET sep == st.Ready /\ st.buf # <<>>
        p == (IF sep THEN <<BlankLine>> ELSE <<>>) \o st.buf
    IN  [st EXCEPT !.out = @ \o p,
                   !.Written = @ + Len(p),
                   !.Ready = IF sep THEN FALSE ELSE @,
                   !.buf = <<>>]

\* printIfNotFindResource without the test of --ignore-not-found
printIfNotFindResourceDespiteIgnore(opt, written, errs, allResourcesNamespaced) ==
    IF written # 0 \/ Len(errs) # 0 THEN <<>>
    ELSE IF ~ContainKarmadaScope(opt.OperationScope)
            /\ Len(opt.TargetMemberClusters) = 0
    THEN <<"No member Clusters found in Karmada control plane">>
    ELSE IF allResourcesNamespaced
    THEN <<"No resources found in namespace.">>
    ELSE <<"No resources found">>

\* printIfNotFindResource with the test of the scope on the members
printIfNotFindResourceMembersScope(opt, written, errs, allResourcesNamespaced) ==
    IF written # 0 \/ opt.IgnoreNotFound \/ Len(errs) # 0 THEN <<>>
    ELSE IF ~ContainMembersScope(opt.OperationScope)
            /\ Len(opt.TargetMemberClusters) = 0
    THEN <<"No member Clusters found in Karmada control plane">>
    ELSE IF allResourcesNamespaced
    THEN <<"No resources found in namespace.">>
    ELSE <<"No resources found">>

\* printIfNotFindResource: what it writes to ErrOut
printIfNotFindResource(opt, written, errs, allResourcesNamespaced) ==
    IF written # 0 \/ opt.IgnoreNotFound \/ Len(errs) # 0 THEN <<>>
    ELSE IF ~ContainKarmadaScope(opt.OperationScope)
            /\ Len(opt.TargetMemberClusters) = 0
    THEN <<"No member Clusters found in Karmada control plane">>
    ELSE IF allResourcesNamespaced
    THEN <<"No resources found in namespace.">>
    ELSE <<"No resources found">>

\* the state printObjs starts its loop with
printObjsStart(opt, errs, cols) ==
    [printer |-> NilPrinter, lastMapping |-> NilMapping,
     printWithKind |-> FALSE,
     Written |-> 0, Ready |-> FALSE, buf |-> <<>>, out |-> <<>>,
     sameKind |-> <<>>, allResourcesNamespaced |-> ~opt.AllNamespaces,
     errs |-> {}, allErrs |-> errs, errOut |-> <<>>,
     podColumns |-> cols, returned |-> FALSE]

\* the first half of the loop body: a new printer when the mapping changes
printObjsPrinter(opt, os, ix, st, badPrinters) ==
    LET mapping == os[ix].Info.Mapping
        st1 == [st EXCEPT !.sameKind = Append(@, os[ix]),
                          !.allResourcesNamespaced = @ /\ mapping.namespaced]
    IN  IF ~shouldGetNewPrinterForMapping(st1.printer, st1.lastMapping, mapping)
        THEN [st |-> st1, continue |-> FALSE]
        ELSE LET st2 == Flush(st1)
                 st3 == IF st2.lastMapping # NilMapping /\ ~opt.NoHeaders
                           /\ st2.Written > 0
                        THEN [st2 EXCEPT !.Ready = TRUE] ELSE st2
                 msg == [cluster |-> "", kind |-> "printer", msg |-> mapping.Resource]
             IN  IF mapping.Resource \in badPrinters
                 THEN [st |-> [st3 EXCEPT
                                 !.printer = NilFuncPrinter,
                                 !.errs = @ \cup {msg},
                                 !.allErrs = IF msg \in st3.errs THEN @
                                             ELSE Append(@, msg)],
                       continue |-> TRUE]
                 ELSE [st |-> [st3 EXCEPT
                                 !.printer = Printer(checkPrintWithNamespace(opt, mapping),
                                                     st3.printWithKind),
                                 !.lastMapping = mapping],
                       continue |-> FALSE]

\* the second half of the loop body going on to the next group after a
\* group that does not decode
printObjsGroupSkippingUndecodable(opt, os, ix, st) ==
    IF ~(ix = Len(os) \/ os[ix].Info.Mapping.Resource # os[ix + 1].Info.Mapping.Resource)
    THEN st
    ELSE LET res == reconstructionRow(st.sameKind)
             cols == setNoAdoption(res.mapping, st.podColumns)
             defs == setColumnDefinition(res.table.ColumnDefinitions, cols, opt.OutputWatchEvents)
         IN  IF res.err # ""
             THEN [st EXCEPT !.allErrs = Append(@, [cluster |-> "", kind |-> "decode",
                                                     msg |-> res.err]),
                             !.sameKind = <<>>]
             ELSE [st EXCEPT !.podColumns = cols,
                             !.buf = @ \o PrintTable(opt, st.printer, res.mapping,
                                                     defs, res.rows),
                             !.sameKind = <<>>]

\* the second half of the loop body: at the last record of a group the
\* rows of the group are rebuilt and printed as one table
printObjsGroup(opt, os, ix, st) ==
    IF ~(ix = Len(os) \/ os[ix].Info.Mapping.Resource # os[ix + 1].Info.Mapping.Resource)
    THEN st
    ELSE LET res == reconstructionRow(st.sameKind)
             cols == setNoAdoption(res.mapping, st.podColumns)
             defs == setColumnDefinition(res.table.ColumnDefinitions, cols, opt.OutputWatchEvents)
         IN  IF res.err # ""
             THEN [st EXCEPT !.allErrs = Append(@, [cluster |-> "", kind |-> "decode",
                                                     msg |-> res.err]),
                             !.returned = TRUE]
             ELSE [st EXCEPT !.podColumns = cols,
                             !.buf = @ \o PrintTable(opt, st.printer, res.mapping,
                                                     defs, res.rows),
                             !.sameKind = <<>>]

RECURSIVE printObjsFrom(_, _, _, _, _)
printObjsFrom(opt, os, ix, st, badPrinters) ==
    IF st.returned THEN st
    ELSE IF ix > Len(os)
    THEN LET st1 == Flush(st)
         IN  [st1 EXCEPT !.errOut = @ \o printIfNotFindResource(opt, st1.Written,
                                            st1.allErrs, st1.allResourcesNamespaced)]
    ELSE LET a == printObjsPrinter(opt, os, ix, st, badPrinters)
         IN  IF a.continue THEN printObjsFrom(opt, os, ix + 1, a.st, badPrinters)
             ELSE printObjsFrom(opt, os, ix + 1, printObjsGroup(opt, os, ix, a.st),
                                badPrinters)

\* printObjs: what is written to Out and to ErrOut, the errors and
\* podColumns after the call
printObjs(opt, os, errs, cols, badPrinters) ==
    printObjsFrom(opt, os, 1,
                  [printObjsStart(opt, errs, cols) EXCEPT
                      !.printWithKind = multipleGVKsRequested(os)],
                  badPrinters)

-----------------------------------------------------------------------------
(* Complete and Validate *)

\* the order in which the control plane lists its Cluster objects
MemberOrder == <<"member1", "member2">>

\* LoadRegisteredClusters
LoadRegisteredClusters(reg) ==
    IF ~reg.ok
    THEN [err |-> "failed to list all member clusters in control plane",
          clusters |-> <<>>]
    ELSE [err |-> "", clusters |-> SelectSeq(MemberOrder, LAMBDA c : c \in reg.names)]

\* HandleClusterScopeFlags: the error and TargetMemberClusters
HandleClusterScopeFlags(opt, reg) ==
    IF opt.OperationScope = KarmadaControlPlane
    THEN [err |-> "", clusters |-> <<>>]
    ELSE IF Len(opt.Clusters) = 0
    THEN LoadRegisteredClusters(reg)
    ELSE [err |-> "", clusters |-> opt.Clusters]

\* util.VerifyClustersExist: an error that lists the names of the input
\* that no registered cluster has
VerifyClustersExist(input, names) ==
    IF \E i \in 1..Len(input) : input[i] \notin names
    THEN "clusters don't exist" ELSE ""

\* options.VerifyOperationScopeFlags
VerifyOperationScopeFlags(scope) ==
    IF scope \in OperationScopes THEN "" ELSE "not support operation scope"

\* Validate returning before it lists the registered clusters
ValidateErrWithoutClusterCheck(opt, reg) ==
    IF opt.ShowLabels /\ opt.Output # "" /\ opt.Output # "wide"
    THEN "--show-labels option cannot be used with this printer"
    ELSE IF opt.OutputWatchEvents /\ ~opt.Watch /\ ~opt.WatchOnly
    THEN "--output-watch-events option can only be used with --watch or --watch-only"
    ELSE IF VerifyOperationScopeFlags(opt.OperationScope) # ""
    THEN VerifyOperationScopeFlags(opt.OperationScope)
    ELSE ""

\* Validate: the error it returns, "" for nil
ValidateErr(opt, reg) ==
    IF opt.ShowLabels /\ opt.Output # "" /\ opt.Output # "wide"
    THEN "--show-labels option cannot be used with this printer"
    ELSE IF opt.OutputWatchEvents /\ ~opt.Watch /\ ~opt.WatchOnly
    THEN "--output-watch-events option can only be used with --watch or --watch-only"
    ELSE IF VerifyOperationScopeFlags(opt.OperationScope) # ""
    THEN VerifyOperationScopeFlags(opt.OperationScope)
    ELSE IF ContainMembersScope(opt.OperationScope) /\ Len(opt.Clusters) > 0
    THEN IF ~reg.ok THEN "failed to list clusters"
         ELSE VerifyClustersExist(opt.Clusters, reg.names)
    ELSE ""

UnknownCluster == "clusters don't exist"

\* the output and watch flags of the invocations of the model: none, -o json,
\* --show-labels, --show-labels -o json, --watch, --watch-only,
\* --watch --output-watch-events, --output-watch-events
FlagProfiles ==
    {DefaultOptions,
     [DefaultOptions EXCEPT !.Output = "json"],
     [DefaultOptions EXCEPT !.ShowLabels = TRUE],
     [DefaultOptions EXCEPT !.ShowLabels = TRUE, !.Output = "json"],
     [DefaultOptions EXCEPT !.Watch = TRUE],
     [DefaultOptions EXCEPT !.WatchOnly = TRUE],
     [DefaultOptions EXCEPT !.Watch = TRUE, !.OutputWatchEvents = TRUE],
     [DefaultOptions EXCEPT !.OutputWatchEvents = TRUE]}

\* the flags of one invocation
Invocations ==
    {[f EXCEPT !.OperationScope = s, !.Clusters = c, !.IgnoreNotFound = inf] :
        f \in FlagProfiles, s \in OperationScopes,
        c \in SeqsUpTo(ClusterNames, MaxClusters), inf \in BOOLEAN}

\* the registry: no cluster registered, or member1 and member2; or the
\* control plane does not answer
Registries == {[ok |-> TRUE, names |-> {}], [ok |-> TRUE, names |-> MemberNames],
               [ok |-> FALSE, names |-> MemberNames]}

Init ==
    /\ g \in Invocations
    /\ registry \in Registries
    /\ pc = "Complete"
    /\ idx = 0
    /\ task = <<>>
    /\ mux = 0
    /\ objs = <<>>
    /\ watchObjs = <<>>
    /\ allErrs = <<>>
    /\ sent = {}
    /\ out = <<>>
    /\ errOut = <<>>
    /\ runErr = "pending"
    /\ podColumns = InitPodColumns
    /\ rowIn = NoRowIn
    /\ rowOut = NoRowOut
    /\ renders = <<>>
    /\ WatchIdle

renderVars == <<podColumns, rowIn, rowOut, renders>>

\* Complete: the printer kind, the control plane client, the target clusters
Complete ==
    /\ pc = "Complete"
    /\ \E clientOk \in BOOLEAN :
         LET h == HandleClusterScopeFlags(g, registry)
             human == g.Output = "" \/ g.Output = "wide"
         IN  IF ~clientOk
             THEN /\ g' = [g EXCEPT !.IsHumanReadablePrinter = human]
                  /\ pc' = "rejected"
                  /\ runErr' = "no control plane client"
             ELSE /\ g' = [g EXCEPT !.IsHumanReadablePrinter = human,
                                    !.TargetMemberClusters = h.clusters]
                  /\ pc' = IF h.err = "" THEN "Validate" ELSE "rejected"
                  /\ runErr' = IF h.err = "" THEN runErr ELSE h.err
    /\ UNCHANGED <<registry, idx, task, mux, objs, watchObjs, allErrs, sent, out,
                   errOut, renderVars, watchVars>>

\* Validate, and RunE returning its error
Validate ==
    /\ pc = "Validate"
    /\ LET err == ValidateErr(g, registry)
       IN  /\ pc' = IF err = "" THEN "Run" ELSE "rejected"
           /\ runErr' = IF err = "" THEN runErr ELSE err
    /\ UNCHANGED <<g, registry, idx, task, mux, objs, watchObjs, allErrs, sent, out,
                   errOut, renderVars, watchVars>>

-----------------------------------------------------------------------------
(* Run: the fan-out *)

ManagedDoc == [parses |-> TRUE,
               labels |-> [k \in {ManagedByKarmadaLabel} |-> ManagedByKarmadaLabelValue]]
PlainDoc == [parses |-> TRUE, labels |-> <<>>]

\* what the resource builder of one cluster resolves to: nothing, two
\* pods, one deployment, or an object that is no table
QueryInfos ==
    {<<>>,
     <<[Mapping |-> Mappings.pods, Object |-> ServerTable(2, <<ManagedDoc, PlainDoc>>)]>>,
     <<[Mapping |-> Mappings.deployments, Object |-> ServerTable(2, <<PlainDoc>>)]>>,
     <<[Mapping |-> Mappings.pods, Object |-> MalformedObject]>>}

RECURSIVE RowCount(_)
RowCount(infos) ==
    IF infos = <<>> THEN 0
    ELSE Len(Head(infos).Object.Rows) + RowCount(Tail(infos))

\* a getObjInfo call that has not taken its first step; failure and rows
\* keep what the call met: the kind of its error, the rows it was given
NewTask(cluster, isControlPlane) ==
    [pc |-> "start", Cluster |-> cluster, IsControlPlane |-> isControlPlane,
     err |-> <<>>, tmp |-> <<>>, r |-> <<>>, failure |-> "", rows |-> 0]

\* the errors getObjInfo appends to allErrs
RestClientErr == [cluster |-> "", kind |-> "restclient", msg |-> "no rest client"]
InaccessibleErr(cluster) ==
    [cluster |-> cluster, kind |-> "inaccessible",
     msg |-> "is inaccessible, please check authorization or network"]
QueryErr(cluster, msg) == [cluster |-> cluster, kind |-> "query", msg |-> msg]

\* the requests getObjInfo has sent when it reaches a step
Probe(t) == IF task[t].IsControlPlane THEN {} ELSE {<<t, "probe">>}
ProbeAndQuery(t) == Probe(t) \cup {<<t, "query">>}

Watching == g.Watch \/ g.WatchOnly

\* getObjInfo leaves with an error: the append to allErrs is a read of the
\* slice followed by a write, with no lock held
Fail(t, e, requests) ==
    /\ task' = [task EXCEPT ![t].pc = "load", ![t].err = <<e>>, ![t].failure = e.kind]
    /\ sent' = sent \cup requests
    /\ UNCHANGED out

\* printGeneric writes the objects, or an empty list, to g.Out; its error
\* is appended to allErrs like the others
PrintGeneric(t, infos) ==
    /\ out' = Append(out, [kind |-> "generic", printer |-> NilPrinter,
                           Resource |-> task[t].Cluster, cols |-> infos])
    /\ \E printErr \in BOOLEAN :
         task' = IF printErr
                 THEN [task EXCEPT ![t].pc = "load", ![t].failure = "query",
                                   ![t].err = <<QueryErr(task[t].Cluster, "failed")>>]
                 ELSE [task EXCEPT ![t].pc = "done", ![t].rows = RowCount(infos)]

\* getObjInfo up to its first access to the variables it shares: the REST
\* client, the probe of a member cluster, the query, and printGeneric or
\* r.Infos()
GetObjInfo(t) ==
    /\ t \in DOMAIN task
    /\ task[t].pc = "start"
    /\ \/ Fail(t, RestClientErr, {})
       \/ /\ ~task[t].IsControlPlane
          /\ Fail(t, InaccessibleErr(task[t].Cluster), Probe(t))
       \/ \E msg \in {"not found", "failed"} :
             IF msg = "not found" /\ g.IgnoreNotFound
             THEN \* r.IgnoreErrors(apierrors.IsNotFound): nothing is left
                  /\ sent' = sent \cup ProbeAndQuery(t)
                  /\ IF Watching \/ g.IsHumanReadablePrinter
                     THEN /\ task' = [task EXCEPT ![t].pc = "lock"]
                          /\ UNCHANGED out
                     ELSE PrintGeneric(t, <<>>)
             ELSE Fail(t, QueryErr(task[t].Cluster, msg), ProbeAndQuery(t))
       \/ \E infos \in QueryInfos :
             /\ sent' = sent \cup ProbeAndQuery(t)
             /\ IF Watching \/ g.IsHumanReadablePrinter
                THEN /\ task' = [task EXCEPT ![t].pc = "lock", ![t].r = infos,
                                             ![t].rows = RowCount(infos)]
                     /\ UNCHANGED out
                ELSE PrintGeneric(t, infos)
    /\ UNCHANGED <<g, registry, pc, idx, mux, objs, watchObjs, allErrs, errOut,
                   runErr, renderVars, watchVars>>

\* *allErrs = append(*allErrs, err): the read of the slice
LoadAllErrs(t) ==
    /\ t \in DOMAIN task
    /\ task[t].pc = "load"
    /\ task' = [task EXCEPT ![t].pc = "store", ![t].tmp = allErrs]
    /\ UNCHANGED <<g, registry, pc, idx, mux, objs, watchObjs, allErrs, sent, out,
                   errOut, runErr, renderVars, watchVars>>

\* *allErrs = append(*allErrs, err): the write of the slice, and the return
StoreAllErrs(t) ==
    /\ t \in DOMAIN task
    /\ task[t].pc = "store"
    /\ allErrs' = task[t].tmp \o task[t].err
    /\ task' = [task EXCEPT ![t].pc = "done", ![t].tmp = <<>>, ![t].err = <<>>]
    /\ UNCHANGED <<g, registry, pc, idx, mux, objs, watchObjs, sent, out,
                   errOut, runErr, renderVars, watchVars>>

\* mux.Lock()
Lock(t) ==
    /\ t \in DOMAIN task
    /\ task[t].pc = "lock"
    /\ mux = 0
    /\ mux' = t + 1
    /\ task' = [task EXCEPT ![t].pc = "append"]
    /\ UNCHANGED <<g, registry, pc, idx, objs, watchObjs, allErrs, sent, out,
                   errOut, runErr, renderVars, watchVars>>

\* the appends to watchObjs or to objs, and mux.Unlock()
AppendAndUnlock(t) ==
    /\ t \in DOMAIN task
    /\ task[t].pc = "append"
    /\ IF Watching
       THEN /\ watchObjs' = Append(watchObjs, [Cluster |-> task[t].Cluster,
                                                r |-> task[t].r])
            /\ UNCHANGED objs
       ELSE /\ objs' = objs \o [i \in 1..Len(task[t].r) |->
                                   [Cluster |-> task[t].Cluster,
                                    IsControlPlane |-> task[t].IsControlPlane,
                                    Info |-> task[t].r[i]]]
            /\ UNCHANGED watchObjs
    /\ mux' = 0
    /\ task' = [task EXCEPT ![t].pc = "done", ![t].r = <<>>]
    /\ UNCHANGED <<g, registry, pc, idx, allErrs, sent, out, errOut, runErr,
                   renderVars, watchVars>>

\* Run: the call of getObjInfo for the control plane, in the goroutine of Run
RunKarmada ==
    /\ pc = "Run"
    /\ IF ContainKarmadaScope(g.OperationScope)
       THEN /\ task' = (0 :> NewTask(KarmadaName, TRUE))
            /\ pc' = "karmada"
            /\ UNCHANGED idx
       ELSE /\ pc' = "members"
            /\ idx' = 1
            /\ UNCHANGED task
    /\ UNCHANGED <<g, registry, mux, objs, watchObjs, allErrs, sent, out, errOut,
                   runErr, renderVars, watchVars>>

\* getObjInfo for the control plane has returned
KarmadaReturns ==
    /\ pc = "karmada"
    /\ task[0].pc = "done"
    /\ pc' = "members"
    /\ idx' = 1
    /\ UNCHANGED <<g, registry, task, mux, objs, watchObjs, allErrs, sent, out,
                   errOut, runErr, renderVars, watchVars>>

\* one round of the loop over TargetMemberClusters: the factory of the
\* member cluster, then go getObjInfo; Run returns the error of the factory
StartMember ==
    /\ pc = "members"
    /\ idx <= Len(g.TargetMemberClusters)
    /\ \E factoryOk \in BOOLEAN :
         IF factoryOk
         THEN /\ task' = task @@ (idx :> NewTask(g.TargetMemberClusters[idx], FALSE))
              /\ idx' = idx + 1
              /\ UNCHANGED <<pc, runErr>>
         ELSE /\ pc' = "aborted"
              /\ runErr' = "no factory for member cluster"
              /\ UNCHANGED <<task, idx>>
    /\ UNCHANGED <<g, registry, mux, objs, watchObjs, allErrs, sent, out, errOut,
                   renderVars, watchVars>>

MemberTasks == DOMAIN task \ {0}

\* wg.Wait() returns
Join ==
    /\ pc = "members"
    /\ idx > Len(g.TargetMemberClusters)
    /\ \A t \in MemberTasks : task[t].pc = "done"
    /\ pc' = "joined"
    /\ UNCHANGED <<g, registry, idx, task, mux, objs, watchObjs, allErrs, sent, out,
                   errOut, runErr, renderVars, watchVars>>

\* sort.Slice(objs, ...) by Mapping.Resource.String(): any order of the
\* records that is sorted by resource (sort.Slice is not stable)
SortedObjs(os) ==
    {[i \in 1..Len(os) |-> os[f[i]]] :
        f \in {h \in [1..Len(os) -> 1..Len(os)] :
                 /\ \A i, j \in 1..Len(os) : i # j => h[i] # h[j]
                 /\ \A i \in 1..Len(os) - 1 :
                       os[h[i]].Info.Mapping.rank <= os[h[i + 1]].Info.Mapping.rank}}

\* utilerrors.NewAggregate(allErrs): nil when the list is empty
NewAggregate(errs) == IF Len(errs) = 0 THEN "" ELSE "aggregate"

\* Run hands watchObjs to watch and returns what watch returns: an error
\* when there is nothing to watch or the set-up fails, nil when the watch ends
RunWatch ==
    /\ pc = "joined"
    /\ Watching
    /\ IF Len(watchObjs) <= 0
       THEN runErr' = "not to find obj that is watched"
       ELSE \E err \in {"", "watch failed"} : runErr' = err
    /\ pc' = "returned"
    /\ UNCHANGED <<g, registry, idx, task, mux, objs, watchObjs, allErrs, sent, out,
                   errOut, renderVars, watchVars>>

\* the objects were printed in json or yaml by getObjInfo: Run returns nil
RunGeneric ==
    /\ pc = "joined"
    /\ ~Watching
    /\ ~g.IsHumanReadablePrinter
    /\ runErr' = ""
    /\ pc' = "returned"
    /\ UNCHANGED <<g, registry, idx, task, mux, objs, watchObjs, allErrs, sent, out,
                   errOut, renderVars, watchVars>>

\* Run sorts the records, prints them and returns the aggregate of allErrs
RunPrint ==
    /\ pc = "joined"
    /\ ~Watching
    /\ g.IsHumanReadablePrinter
    /\ \E sorted \in SortedObjs(objs) :
         LET res == printObjs(g, sorted, allErrs, podColumns, {})
         IN  /\ objs' = sorted
             /\ out' = out \o res.out
             /\ errOut' = errOut \o res.errOut
             /\ allErrs' = res.allErrs
             /\ podColumns' = res.podColumns
             /\ runErr' = NewAggregate(res.allErrs)
    /\ pc' = "returned"
    /\ UNCHANGED <<g, registry, idx, task, mux, watchObjs, sent, rowIn, rowOut,
                   renders, watchVars>>

Next ==
    \/ Complete
    \/ Validate
    \/ RunKarmada
    \/ KarmadaReturns
    \/ StartMember
    \/ Join
    \/ \E t \in DOMAIN task : GetObjInfo(t)
    \/ \E t \in DOMAIN task : LoadAllErrs(t)
    \/ \E t \in DOMAIN task : StoreAllErrs(t)
    \/ \E t \in DOMAIN task : Lock(t)
    \/ \E t \in DOMAIN task : AppendAndUnlock(t)
    \/ RunWatch
    \/ RunGeneric
    \/ RunPrint

Spec == Init /\ [][Next]_vars

-----------------------------------------------------------------------------
(* Claims on the command, checked under Spec *)

\* the targets of the run: 0 is the control plane, i the i-th member cluster
Targets == (IF ContainKarmadaScope(g.OperationScope) THEN {0} ELSE {})
             \cup (1..Len(g.TargetMemberClusters))

\* Run has returned: after the join, or out of the loop that starts the tasks
RunReturned == pc \in {"returned", "aborted"}

TableList == ~Watching /\ g.IsHumanReadablePrinter

FailingTargets == {t \in DOMAIN task : task[t].failure # ""}
SucceedingTargets == {t \in DOMAIN task : task[t].failure = ""}

RECURSIVE SumRows(_)
SumRows(T) == IF T = {} THEN 0
              ELSE LET t == CHOOSE x \in T : TRUE
                   IN  task[t].rows + SumRows(T \ {t})

RenderedRows == Cardinality({i \in 1..Len(out) : out[i].kind = "row"})

\* no record failed to decode, so that no render was cut short
NoDecodeError == \A i \in 1..Len(allErrs) : allErrs[i].kind # "decode"

\* C1: once the fan-out has joined, allErrs holds exactly as many entries as
\* there are failing targets, and the list render prints as many rows as
\* the succeeding targets returned
C1_ErrorsAndRowsCounted ==
    /\ pc = "joined" => Len(allErrs) = Cardinality(FailingTargets)
    /\ (pc = "returned" /\ TableList /\ NoDecodeError) =>
           RenderedRows = SumRows(SucceedingTargets)

\* C2: in every mode Run returns an error if and only if allErrs holds an error
C2_FailureIffErrors ==
    pc = "returned" => (runErr # "" <=> Len(allErrs) > 0)

\* C3: Run never returns before the task of every target has finished, and
\* the rows of the targets that succeeded are rendered
C3_EveryTaskFinishes ==
    RunReturned =>
        /\ \A t \in Targets : t \in DOMAIN task /\ task[t].pc = "done"
        /\ (TableList /\ NoDecodeError) => RenderedRows = SumRows(SucceedingTargets)

\* C4: for every member cluster whose probe failed there is exactly one
\* inaccessible error naming it and no query was sent to it; the control
\* plane is never probed; the rows of the other targets are printed and
\* Run returns an error, with or without --ignore-not-found
C4_ProbeFailure ==
    /\ <<0, "probe">> \notin sent
    /\ \A t \in DOMAIN task :
          task[t].failure = "inaccessible" =>
              /\ <<t, "query">> \notin sent
              /\ pc = "returned" =>
                    /\ Cardinality({i \in 1..Len(allErrs) :
                           allErrs[i] = InaccessibleErr(task[t].Cluster)}) = 1
                    /\ runErr # ""
                    /\ (TableList /\ NoDecodeError) =>
                           RenderedRows = SumRows(SucceedingTargets)

\* the target set is empty
NoTargets == ~ContainKarmadaScope(g.OperationScope) /\ Len(g.TargetMemberClusters) = 0

UnknownRequested ==
    /\ ContainMembersScope(g.OperationScope)
    /\ \E i \in 1..Len(g.Clusters) : g.Clusters[i] \notin registry.names

EarlierChecksPass ==
    /\ runErr # "no control plane client"
    /\ ~(g.ShowLabels /\ g.Output \notin {"", "wide"})
    /\ ~(g.OutputWatchEvents /\ ~g.Watch /\ ~g.WatchOnly)
    /\ registry.ok

C11_TargetsUniqueAndOrdered ==
    /\ \A t, u \in DOMAIN task : t # u => task[t].Cluster # task[u].Cluster
    /\ \A t \in MemberTasks : 0 \in DOMAIN task => task[0].pc = "done"
    /\ (g.OperationScope = KarmadaControlPlane /\ pc \in {"joined", "returned"}) =>
           DOMAIN task = {0}
    /\ g.OperationScope = Members => 0 \notin DOMAIN task

\* a task is inside the append to allErrs (the slice read, not yet written)
\* or inside the appends to objs and watchObjs
WritesErrors(t) == task[t].pc = "store"
WritesRecords(t) == task[t].pc = "append"

\* C20: a task of the fan-out writes objs, watchObjs or allErrs only while
\* it holds mux, and no two tasks are writing the same container at once
C20_WritesUnderMutex ==
    /\ \A t \in DOMAIN task : (WritesErrors(t) \/ WritesRecords(t)) => mux = t + 1
    /\ \A t, u \in DOMAIN task :
          t # u => /\ ~(WritesErrors(t) /\ WritesErrors(u))
                   /\ ~(WritesRecords(t) /\ WritesRecords(u))

\* the errors of allErrs that a getObjInfo call appended
TaskErrors == {i \in DOMAIN allErrs :
                  allErrs[i].kind \in {"restclient", "inaccessible", "query"}}

\* C26: the errors Run returns hold no message twice, and every error a
\* getObjInfo call appended names the cluster of the call
C26_ErrorsDistinctAndTagged ==
    pc = "returned" =>
        /\ \A i, j \in DOMAIN allErrs : i # j => allErrs[i] # allErrs[j]
        /\ \A i \in TaskErrors : allErrs[i].cluster # ""

-----------------------------------------------------------------------------
(* SpecRender: printObjs called on collected records, time and again in    *)
(* one process; every call has its own writers, podColumns is shared       *)

SortedByResource(os) ==
    \A i \in 1..Len(os) - 1 : os[i].Info.Mapping.rank <= os[i + 1].Info.Mapping.rank

RenderTables == {ServerTable(2, <<[parses |-> TRUE,
                                   labels |-> [k \in {ManagedByKarmadaLabel} |->
                                                  ManagedByKarmadaLabelValue]]>>),
                 MalformedObject}

RenderObjs == {[Cluster |-> o.Cluster, IsControlPlane |-> o.IsControlPlane,
                Info |-> [Mapping |-> m, Object |-> t]] :
                  o \in {x \in Origins : x.Cluster \in {KarmadaName, "member1"}},
                  m \in {Mappings.nodes, Mappings.pods, Mappings.deployments},
                  t \in RenderTables}

\* the record lists Run hands to printObjs: sorted by resource
RenderInputs == {os \in SeqsUpTo(RenderObjs, 2) : SortedByResource(os)}

InitRender ==
    /\ CmdIdle
    /\ g \in {[DefaultOptions EXCEPT !.IsHumanReadablePrinter = TRUE,
                                      !.PrintNoHeaders = h, !.IgnoreNotFound = i] :
                 h \in BOOLEAN, i \in BOOLEAN}
    /\ podColumns = InitPodColumns
    /\ rowIn = NoRowIn
    /\ rowOut = NoRowOut
    /\ renders = <<>>
    /\ WatchIdle

Render ==
    /\ Len(renders) < MaxRenders
    /\ \E os \in RenderInputs :
         LET res == printObjs(g, os, <<>>, podColumns, {})
         IN  /\ renders' = Append(renders, [objs |-> os, out |-> res.out,
                                             errOut |-> res.errOut,
                                             allErrs |-> res.allErrs])
             /\ podColumns' = res.podColumns
    /\ UNCHANGED <<cmdVars, rowIn, rowOut, watchVars>>

NextRender == Render

SpecRender == InitRender /\ [][NextRender]_vars

\* C8: rendering the same collected record set twice, each time with fresh
\* writers, gives the same output, column priorities included, whatever was
\* rendered before or in between
C8_RenderIdempotent ==
    \A i, j \in 1..Len(renders) :
        renders[i].objs = renders[j].objs =>
            /\ renders[i].out = renders[j].out
            /\ renders[i].errOut = renders[j].errOut

\* the header lines a render wrote, and the priority the ADOPTION column
\* has in one of them
Headers(o) == {i \in 1..Len(o) : o[i].kind = "header"}
AdoptionPriority(cols) ==
    LET i == CHOOSE k \in 1..Len(cols) : cols[k].Name = "ADOPTION"
    IN  cols[i].Priority

\* C19: in every table of the first render of a process (podColumns as
\* declared) the ADOPTION column has priority 1 exactly when the table is
\* the table of pods, also when a table of pods was printed before it
C19_AdoptionPriorityOfPodsOnly ==
    Len(renders) >= 1 =>
        \A i \in Headers(renders[1].out) :
            AdoptionPriority(renders[1].out[i].cols) = 1
                <=> renders[1].out[i].Resource = "pods"

-----------------------------------------------------------------------------
(* Claims on the row reconstruction, checked under SpecRow *)

Last(s) == s[Len(s)]

\* the rows that came out, with the row each was built from
BuiltRows == IF rowIn.mode = "none" \/ rowOut.err # "" THEN {}
             ELSE 1..Len(rowOut.Rows)
InRow(r) == rowIn.Object.Rows[r]
OutRow(r) == rowOut.Rows[r]

\* the document of a row carries the managed-by label with its expected value
CarriesManagedLabel(raw) ==
    /\ raw.parses
    /\ ManagedByKarmadaLabel \in DOMAIN raw.labels
    /\ raw.labels[ManagedByKarmadaLabel] = ManagedByKarmadaLabelValue

\* C5: every row built from a control-plane record has the adoption cell
\* "-", in list rendering, in the initial rows of a watch and in the rows
\* of watch events, whatever its document
C5_ControlPlaneRowsNotApplicable ==
    \A r \in BuiltRows :
        rowIn.IsControlPlane => Last(OutRow(r).Cells) = "-"

\* C6: every row built from a member record has the adoption cell "Y" when
\* its document carries the managed-by label with the expected value, and
\* "N" in every other case
C6_MemberRowsAdoption ==
    \A r \in BuiltRows :
        ~rowIn.IsControlPlane =>
            Last(OutRow(r).Cells) =
                IF CarriesManagedLabel(InRow(r).Object) THEN "Y" ELSE "N"

\* C7: every row has len(originalCells)+2 cells, +3 with the event cell:
\* the event cell if any, the name, the cluster, the other original cells,
\* and the adoption cell last
C7_RowShape ==
    \A r \in BuiltRows :
        LET orig == InRow(r).Cells
            cells == OutRow(r).Cells
            ev == IF g.OutputWatchEvents THEN 1 ELSE 0
        IN  /\ Len(cells) = Len(orig) + 2 + ev
            /\ ev = 1 => cells[1] = rowIn.event
            /\ cells[ev + 1] = orig[1]
            /\ cells[ev + 2] = rowIn.Cluster
            /\ SubSeq(cells, ev + 3, Len(cells) - 1) = Tail(orig)
            /\ Last(cells) \in {"Y", "N", "-"}

-----------------------------------------------------------------------------
(* SpecWatch: watch on the handles Run collected, and the goroutines of    *)
(* watchMultiClusterObj                                                    *)

\* the clusters of the handles of watchObjs, in the order of the appends
WatchClusters == <<KarmadaName, "member1", "member2", "member3">>

\* a *resource.Result as watch reads it: the infos it resolved to (with
\* the server's table as Object) and whether one item was asked for by name
Results ==
    [item |->
        [singleItemImplied |-> TRUE,
         infos |-> <<[Mapping |-> Mappings.pods,
                      Object |-> ServerTable(2, <<PlainDoc>>)]>>],
     list |->
        [singleItemImplied |-> FALSE,
         infos |-> <<[Mapping |-> Mappings.pods,
                      Object |-> ServerTable(2, <<ManagedDoc>>)]>>],
     emptyList |->
        [singleItemImplied |-> FALSE,
         infos |-> <<[Mapping |-> Mappings.pods, Object |-> ServerTable(2, <<>>)]>>],
     otherList |->
        [singleItemImplied |-> FALSE,
         infos |-> <<[Mapping |-> Mappings.deployments,
                      Object |-> ServerTable(3, <<PlainDoc>>)]>>],
     twoTypes |->
        [singleItemImplied |-> FALSE,
         infos |-> <<[Mapping |-> Mappings.pods,
                      Object |-> ServerTable(2, <<PlainDoc>>)],
                     [Mapping |-> Mappings.deployments,
                      Object |-> ServerTable(3, <<PlainDoc>>)]>>],
     twoItems |->
        [singleItemImplied |-> FALSE,
         infos |-> <<[Mapping |-> Mappings.pods,
                      Object |-> ServerTable(2, <<PlainDoc>>)],
                     [Mapping |-> Mappings.pods,
                      Object |-> ServerTable(2, <<ManagedDoc>>)]>>],
     wideList |->
        [singleItemImplied |-> FALSE,
         infos |-> <<[Mapping |-> Mappings.pods,
                      Object |-> ServerTable(3, <<PlainDoc>>)]>>],
     nothing |-> [singleItemImplied |-> FALSE, infos |-> <<>>],
     malformed |->
        [singleItemImplied |-> FALSE,
         infos |-> <<[Mapping |-> Mappings.pods, Object |-> MalformedObject]>>]]

WatchResults == {Results[k] : k \in DOMAIN Results}

\* the lists of handles getObjInfo can leave in watchObjs
WatchObjLists ==
    {[i \in 1..Len(rs) |-> [Cluster |-> WatchClusters[i], r |-> rs[i]]] :
        rs \in SeqsUpTo(WatchResults, MaxWatched)}

\* r.Object(): the one object when a single item was asked for, else a list
\* of the objects of the infos; meta.IsListType of what it returns
ResultObject(r) ==
    [isList |-> ~(Len(r.infos) = 1 /\ r.singleItemImplied),
     items |-> [i \in 1..Len(r.infos) |-> r.infos[i].Object]]

\* infos[0].ResourceMapping() of the first handle: the mapping watch uses
\* for the rows of every handle
WatchMapping == watchObjs[1].r.infos[1].Mapping

\* the errors watch returns
NothingWatched == "not to find obj that is watched"
MultipleKindsWatchUnsupported ==
    "watch is only supported on individual resources and resource collections"

\* one line on g.Out: a header or a row, written for the current objects
\* ("initial") or for the n-th event of the subscription of a cluster
WatchLine(kind, phase, cluster, n, cols) ==
    [kind |-> kind, phase |-> phase, Cluster |-> cluster, n |-> n, cols |-> cols]

\* the human readable printer on a table: no header when it printed the
\* same columns, or the table brings none, after rows were printed; a table
\* without columns is laid out with the last ones; no header without rows
HumanReadablePrintObj(p, defs, rows) ==
    LET noHeaders == p.printedHeaders /\ (Len(defs) = 0 \/ defs = p.lastColumns)
        p1 == IF Len(defs) > 0 /\ defs # p.lastColumns
              THEN [lastColumns |-> defs, printedHeaders |-> FALSE] ELSE p
        cols == IF Len(defs) = 0 THEN p.lastColumns ELSE defs
    IN  [printer |-> IF Len(rows) > 0 THEN [p1 EXCEPT !.printedHeaders = TRUE] ELSE p1,
         header |-> IF ~noHeaders /\ Len(rows) > 0 THEN <<cols>> ELSE <<>>]

\* skipPrinter.PrintObj: the table goes to the delegate, with Rows set to
\* nil when *p.output is false
skipPrinterPrintObj(p, output, table, phase, cluster, n) ==
    LET rows == IF output THEN table.Rows ELSE <<>>
        h == HumanReadablePrintObj(p, table.ColumnDefinitions, rows)
    IN  [printer |-> h.printer,
         lines |-> [i \in 1..Len(h.header) |->
                      WatchLine("header", phase, cluster, n, h.header[i])]
                   \o [i \in 1..Len(rows) |->
                         WatchLine("row", phase, cluster, n, rows[i].Cells)]]

\* the column definitions kept on the rows of every handle
keepColumnDefinitions(i, defs) == defs

\* "only print ColumnDefinitions once": the column definitions of the rows
\* of the idx-th handle (idx counts from 1 here)
initialColumnDefinitions(i, defs) == IF i > 1 THEN <<>> ELSE defs

\* the loop of watch over objsToPrint for the handle at idx: reconstructObj
\* and PrintObj for each object, up to the first error
RECURSIVE printCurrentObjects(_, _, _)
printCurrentObjects(items, k, st) ==
    IF k > Len(items) \/ st.err # "" THEN st
    ELSE LET res == reconstructObj(items[k], WatchMapping, watchObjs[idx].Cluster,
                                   Added, g.OutputWatchEvents, st.podColumns)
             table == [ColumnDefinitions |->
                          initialColumnDefinitions(idx, res.ColumnDefinitions),
                       Rows |-> res.Rows]
             p == skipPrinterPrintObj(st.printer, outputObjects, table, "initial",
                                      watchObjs[idx].Cluster, 0)
         IN  printCurrentObjects(items, k + 1,
                 IF res.err # "" THEN [st EXCEPT !.err = res.err]
                 ELSE [printer |-> p.printer, podColumns |-> res.podColumns,
                       lines |-> st.lines \o p.lines, err |-> ""])

\* watch returns err
WatchReturns(err) ==
    /\ pc' = "returned"
    /\ runErr' = err

\* the process dies of a panic
Panics ==
    /\ pc' = "panicked"
    /\ runErr' = "panic"

\* watch up to its loop over watchObjs: the infos of the first handle, the
\* test of their kinds, infos[0], the printer
WatchSetup ==
    /\ pc = "watch"
    /\ IF Len(watchObjs) <= 0
       THEN WatchReturns(NothingWatched) /\ UNCHANGED <<idx, outputObjects>>
       ELSE LET infos == watchObjs[1].r.infos
                os == [i \in 1..Len(infos) |->
                         [Cluster |-> watchObjs[1].Cluster, IsControlPlane |-> FALSE,
                          Info |-> infos[i]]]
            IN  IF multipleGVKsRequested(os)
                THEN WatchReturns(MultipleKindsWatchUnsupported)
                     /\ UNCHANGED <<idx, outputObjects>>
                ELSE IF Len(infos) = 0
                THEN \* infos[0]: index out of range
                     Panics /\ UNCHANGED <<idx, outputObjects>>
                ELSE \E printerOk \in BOOLEAN :
                        IF printerOk
                        THEN /\ pc' = "initial"
                             /\ idx' = 1
                             /\ outputObjects' = ~g.WatchOnly
                             /\ UNCHANGED runErr
                        ELSE WatchReturns("no printer")
                             /\ UNCHANGED <<idx, outputObjects>>
    /\ UNCHANGED <<g, registry, task, mux, objs, watchObjs, allErrs, sent, out,
                   errOut, renderVars, sess, hrPrinter, writer, mcWriter>>

\* one round of "print the current object": r.Object() of the handle at
\* idx, then its rows into the tab writer; watch returns the first error
PrintCurrentObject ==
    /\ pc = "initial"
    /\ idx <= Len(watchObjs)
    /\ \E objectOk \in BOOLEAN :
         LET obj == ResultObject(watchObjs[idx].r)
             st == printCurrentObjects(obj.items, 1,
                       [printer |-> hrPrinter, podColumns |-> podColumns,
                        lines |-> <<>>, err |-> ""])
         IN  IF ~objectOk
             THEN WatchReturns("cannot read the current object")
                  /\ UNCHANGED <<idx, hrPrinter, podColumns, writer>>
             ELSE /\ hrPrinter' = st.printer
                  /\ podColumns' = st.podColumns
                  /\ writer' = writer \o st.lines
                  /\ IF st.err # ""
                     THEN WatchReturns(st.err) /\ UNCHANGED idx
                     ELSE idx' = idx + 1 /\ UNCHANGED <<pc, runErr>>
    /\ UNCHANGED <<g, registry, task, mux, objs, watchObjs, allErrs, sent, out,
                   errOut, rowIn, rowOut, renders, outputObjects, sess, mcWriter>>

\* a goroutine of watchMultiClusterObj that has not taken a step
\* (sig: the termination signal on the channel of its interrupt handler)
NewSession ==
    [pc |-> "start", isList |-> FALSE, delivered |-> 0, err |-> "", buf |-> <<>>,
     sig |-> "none"]

\* watchMultiClusterObj entered with the rows of the current objects still
\* in the tab writer
WatchMultiClusterObjWithoutFlush ==
    /\ pc = "initial"
    /\ idx > Len(watchObjs)
    /\ sess' = [t \in 1..Len(watchObjs) |-> NewSession]
    /\ pc' = "waiting"
    /\ UNCHANGED <<g, registry, idx, task, mux, objs, watchObjs, allErrs, sent, out,
                   errOut, runErr, renderVars, outputObjects, hrPrinter, writer,
                   mcWriter>>

\* writer.Flush() at the end of watch, then watchMultiClusterObj: wg.Add,
\* one goroutine per handle, wg.Wait()
FlushAndWatchMultiClusterObj ==
    /\ pc = "initial"
    /\ idx > Len(watchObjs)
    /\ out' = out \o writer
    /\ writer' = <<>>
    /\ sess' = [t \in 1..Len(watchObjs) |-> NewSession]
    /\ pc' = "waiting"
    /\ UNCHANGED <<g, registry, idx, task, mux, objs, watchObjs, allErrs, sent,
                   errOut, runErr, renderVars, outputObjects, hrPrinter, mcWriter>>

\* the table of one object in a watch event of the subscription of r
EventTable(r) ==
    IF Len(r.infos) > 0 /\ r.infos[1].Object.form = "table"
    THEN ServerTable(Len(r.infos[1].Object.ColumnDefinitions), <<PlainDoc>>)
    ELSE ServerTable(2, <<PlainDoc>>)

\* the events a subscription can deliver next: a watch of one item from
\* resourceVersion "0" starts with the ADDED event of the item as it is, the
\* others are changes (the type of an event is only copied into its row),
\* or an ERROR whose object is no table
NextEvents(t) ==
    IF ~sess[t].isList /\ sess[t].delivered = 0
    THEN {[Type |-> Added, Object |-> watchObjs[t].r.infos[1].Object]}
    ELSE {[Type |-> "MODIFIED", Object |-> EventTable(watchObjs[t].r)],
          [Type |-> "ERROR", Object |-> MalformedObject]}

\* the goroutine up to r.Watch: r.Object() again, and the assignment to
\* *outputObjects that depends on the kind of the object
SessionObject(t) ==
    /\ pc = "waiting"
    /\ sess[t].pc = "start"
    /\ \E objectOk \in BOOLEAN :
         IF ~objectOk
         THEN Panics /\ UNCHANGED <<sess, outputObjects>>
         ELSE LET isList == ResultObject(watchObjs[t].r).isList
              IN  /\ sess' = [sess EXCEPT ![t].pc = "watch", ![t].isList = isList]
                  /\ outputObjects' = isList
                  /\ UNCHANGED <<pc, runErr>>
    /\ UNCHANGED <<g, registry, idx, task, mux, objs, watchObjs, allErrs, sent, out,
                   errOut, renderVars, hrPrinter, writer, mcWriter>>

\* w, err := watchObj.r.Watch(rv): a result of several infos cannot be
\* watched; panic(err)
SessionWatch(t) ==
    /\ pc = "waiting"
    /\ sess[t].pc = "watch"
    /\ \E watchOk \in BOOLEAN :
         IF ~watchOk \/ Len(watchObjs[t].r.infos) > 1
         THEN Panics /\ UNCHANGED sess
         ELSE /\ sess' = [sess EXCEPT ![t].pc = "loop"]
              /\ UNCHANGED <<pc, runErr>>
    /\ UNCHANGED <<g, registry, idx, task, mux, objs, watchObjs, allErrs, sent, out,
                   errOut, renderVars, outputObjects, hrPrinter, writer, mcWriter>>

\* the function of UntilWithoutRetry on one event, up to writer.Flush():
\* reconstructObj, no column definitions, PrintObj into the shared tab
\* writer; an error ends the loop and is returned to nobody
SessionEvent(t) ==
    /\ pc = "waiting"
    /\ sess[t].pc = "loop"
    /\ sess[t].delivered < MaxEvents
    /\ \E e \in NextEvents(t) :
         LET n == sess[t].delivered + 1
             res == reconstructObj(e.Object, WatchMapping, watchObjs[t].Cluster,
                                   e.Type, g.OutputWatchEvents, podColumns)
             p == skipPrinterPrintObj(hrPrinter, outputObjects,
                      [ColumnDefinitions |-> <<>>, Rows |-> res.Rows],
                      "event", watchObjs[t].Cluster, n)
         IN  IF res.err # ""
             THEN /\ sess' = [sess EXCEPT ![t].pc = "ended", ![t].delivered = n,
                                          ![t].err = res.err]
                  /\ UNCHANGED <<hrPrinter, podColumns, mcWriter>>
             ELSE /\ sess' = [sess EXCEPT ![t].pc = "flush", ![t].delivered = n]
                  /\ hrPrinter' = p.printer
                  /\ podColumns' = res.podColumns
                  /\ mcWriter' = mcWriter \o p.lines
    /\ UNCHANGED <<cmdVars, rowIn, rowOut, renders, outputObjects, writer>>

\* writer.Flush() after the event runs with no lock on the tab writer the
\* goroutines share; its three steps can interleave with the writes and
\* flushes of the others.  First step: the lines in the buffer are laid out
SessionFlushFormat(t) ==
    /\ pc = "waiting"
    /\ sess[t].pc = "flush"
    /\ sess' = [sess EXCEPT ![t].pc = "write", ![t].buf = mcWriter]
    /\ UNCHANGED <<cmdVars, renderVars, outputObjects, hrPrinter, writer, mcWriter>>

\* second step: the lines laid out are written to g.Out
SessionFlushWrite(t) ==
    /\ pc = "waiting"
    /\ sess[t].pc = "write"
    /\ out' = out \o sess[t].buf
    /\ sess' = [sess EXCEPT ![t].pc = "reset", ![t].buf = <<>>]
    /\ UNCHANGED <<g, registry, pc, idx, task, mux, objs, watchObjs, allErrs, sent,
                   errOut, runErr, renderVars, outputObjects, hrPrinter, writer,
                   mcWriter>>

\* third step: the buffer is reset; then *outputObjects = true and the
\* callback returns
SessionFlushReset(t) ==
    /\ pc = "waiting"
    /\ sess[t].pc = "reset"
    /\ mcWriter' = <<>>
    /\ outputObjects' = TRUE
    /\ sess' = [sess EXCEPT ![t].pc = "loop"]
    /\ UNCHANGED <<cmdVars, renderVars, hrPrinter, writer>>

\* the result channel of the subscription is closed, or the context is
\* cancelled: UntilWithoutRetry returns
SessionClosed(t) ==
    /\ pc = "waiting"
    /\ sess[t].pc = "loop"
    /\ sess' = [sess EXCEPT ![t].pc = "ended", ![t].err = "watch closed"]
    /\ UNCHANGED <<cmdVars, renderVars, outputObjects, hrPrinter, writer, mcWriter>>

\* the options of a watch
WatchOptions ==
    {[DefaultOptions EXCEPT !.IsHumanReadablePrinter = TRUE,
                            !.Watch = w, !.WatchOnly = ~w,
                            !.OutputWatchEvents = e] :
        w \in BOOLEAN, e \in BOOLEAN}

\* Run has joined the fan-out and calls g.watch(watchObjs)
InitWatch ==
    /\ g \in WatchOptions
    /\ registry = [ok |-> TRUE, names |-> MemberNames]
    /\ pc = "watch"
    /\ idx = 0
    /\ task = <<>>
    /\ mux = 0
    /\ objs = <<>>
    /\ watchObjs \in WatchObjLists
    /\ allErrs = <<>>
    /\ sent = {}
    /\ out = <<>>
    /\ errOut = <<>>
    /\ runErr = "pending"
    /\ podColumns = InitPodColumns
    /\ rowIn = NoRowIn
    /\ rowOut = NoRowOut
    /\ renders = <<>>
    /\ WatchIdle

NextWatch ==
    \/ WatchSetup
    \/ PrintCurrentObject
    \/ FlushAndWatchMultiClusterObj
    \/ \E t \in DOMAIN sess : SessionObject(t)
    \/ \E t \in DOMAIN sess : SessionWatch(t)
    \/ \E t \in DOMAIN sess : SessionEvent(t)
    \/ \E t \in DOMAIN sess : SessionFlushFormat(t)
    \/ \E t \in DOMAIN sess : SessionFlushWrite(t)
    \/ \E t \in DOMAIN sess : SessionFlushReset(t)
    \/ \E t \in DOMAIN sess : SessionClosed(t)

SpecWatch == InitWatch /\ [][NextWatch]_vars

-----------------------------------------------------------------------------
(* Claims on the watch *)

\* the resource types the handles of watchObjs resolved to, all targets
\* together
WatchedKinds ==
    UNION {{watchObjs[i].r.infos[j].Mapping.GroupVersionKind :
                j \in DOMAIN watchObjs[i].r.infos} : i \in DOMAIN watchObjs}

\* C18: when the handles of a watch span more than one resource type over
\* all targets, watch fails with MultipleKindsWatchUnsupported, no goroutine
\* was started and nothing was written
C18_MultipleKindsRejected ==
    (Cardinality(WatchedKinds) > 1 /\ pc # "watch") =>
        /\ pc = "returned"
        /\ runErr = MultipleKindsWatchUnsupported
        /\ sess = <<>>
        /\ writer = <<>>
        /\ out = <<>>

\* the errors that are about the whole watch and not about one target
WatchSetupErrs == {NothingWatched, MultipleKindsWatchUnsupported, "no printer"}

\* the goroutine of t was ended by an event it could not process
BrokenStream(t) == sess[t].pc = "ended" /\ sess[t].err # "watch closed"

\* C12: a target whose stream breaks is recorded in allErrs under its name
\* and only its own loop ends: no goroutine of a target panics, watch does
\* not return because one target's current state could not be read, and
\* every goroutine ended by an event has an error of its cluster in allErrs
C12_BrokenStreamIsolated ==
    /\ pc = "panicked" => sess = <<>>
    /\ pc = "returned" => runErr \in WatchSetupErrs
    /\ \A t \in DOMAIN sess :
          BrokenStream(t) =>
              \E i \in DOMAIN allErrs : allErrs[i].cluster = watchObjs[t].Cluster

\* the goroutine of t is past r.Object() and has not ended
SessionRuns(t) == sess[t].pc \in {"watch", "loop", "flush", "write", "reset"}

\* the state the session of t is in by its own history: Streaming from the
\* start for a list, and for an item from the end of the callback on the
\* first event of its own subscription
Streaming(t) ==
    \/ sess[t].isList
    \/ sess[t].delivered > 1
    \/ sess[t].delivered = 1 /\ sess[t].pc = "loop"

\* C13: the state of each watch session is its own: the flag the goroutine
\* of a target reads in skipPrinter is false exactly while this target, of
\* item origin, awaits its own first event, whatever the other goroutines do
C13_SessionStateOwn ==
    \A t \in DOMAIN sess : SessionRuns(t) => (outputObjects <=> Streaming(t))

\* the number of rows of a line sequence written for the current state
\* (n = 0) or for the n-th event of the handle of t
RowsOf(lines, phase, t, n) ==
    Cardinality({i \in DOMAIN lines :
                    /\ lines[i].kind = "row"
                    /\ lines[i].phase = phase
                    /\ lines[i].Cluster = watchObjs[t].Cluster
                    /\ lines[i].n = n})

\* the callback of t has returned nil on its n-th event
Processed(t, n) ==
    \/ n < sess[t].delivered
    \/ /\ n = sess[t].delivered
       /\ \/ sess[t].pc = "loop"
          \/ sess[t].pc = "ended" /\ sess[t].err = "watch closed"

\* C14: in a watch (not watch-only) the one item of an item-origin target
\* is on g.Out exactly once, as its initial row, and the first event of its
\* subscription is not printed; every event a session processed while
\* Streaming by its own history (any event of a list, the later events of
\* an item) is on g.Out exactly once
C14_EachRowExactlyOnce ==
    \A t \in DOMAIN sess :
        /\ (g.Watch /\ ~sess[t].isList /\ sess[t].pc # "start") =>
              /\ RowsOf(out, "initial", t, 0) = 1
              /\ RowsOf(out \o mcWriter, "event", t, 1) = 0
        /\ \A n \in 1..MaxEvents :
              (Processed(t, n) /\ (sess[t].isList \/ n > 1)) =>
                  RowsOf(out, "event", t, n) = 1

\* the lines of a line sequence written for watch events
EventLines(lines) == {i \in DOMAIN lines : lines[i].phase = "event"}

\* C15: when a line of a watch event is in a tab writer or on g.Out, the
\* tab writer of the current objects is flushed, every row of the current
\* state of every target is on g.Out, and no such row follows an event line
C15_InitialBeforeLive ==
    (EventLines(out) # {} \/ EventLines(mcWriter) # {}) =>
        /\ writer = <<>>
        /\ \A t \in DOMAIN watchObjs :
              RowsOf(out, "initial", t, 0) =
                  IF g.Watch THEN RowCount(watchObjs[t].r.infos) ELSE 0
        /\ \A i, j \in DOMAIN out :
              (out[i].phase = "event" /\ out[j].phase = "initial") => j < i

\* two targets with a current row each, and the row of an event after them
C15_Witness ==
    /\ Len(watchObjs) = 2
    /\ RowsOf(out, "initial", 1, 0) = 1
    /\ RowsOf(out, "initial", 2, 0) = 1
    /\ \E i \in EventLines(out) : out[i].kind = "row"

\* every line handed to the printer's writers so far, in the order written
Written == out \o writer \o mcWriter

HeaderLines == {i \in DOMAIN Written : Written[i].kind = "header"}

\* the column definitions of the table of the first target's current state
FirstTargetColumns ==
    reconstructObj(watchObjs[1].r.infos[1].Object, WatchMapping,
                   watchObjs[1].Cluster, Added, g.OutputWatchEvents,
                   InitPodColumns).ColumnDefinitions

EventRows == {i \in EventLines(out) : out[i].kind = "row"}

\* C17: the rows of the events of one target are on g.Out in the order in
\* which its subscription delivered the events
C17_PerTargetOrder ==
    \A i, j \in EventRows :
        (out[i].Cluster = out[j].Cluster /\ i < j) => out[i].n <= out[j].n

\* the goroutine of t is between printer.PrintObj of an event and the end
\* of writer.Flush()
InPrintAndFlush(t) == sess[t].pc \in {"flush", "write", "reset"}

\* C21: the writes of the watch loops to the shared output are serialized:
\* no two goroutines are inside the print-and-flush of an event at once
C21_OneWriterAtATime ==
    \A t, u \in DOMAIN sess :
        t # u => ~(InPrintAndFlush(t) /\ InPrintAndFlush(u))

\* the first handle of watchObjs resolved to no record
FirstHandleEmpty == Len(watchObjs) > 0 /\ Len(watchObjs[1].r.infos) = 0

\* C29: when the first watch handle resolves to zero records, watch returns
\* an error or goes on to the subscription; it does not crash on the first
\* element of the empty record list
C29_EmptyFirstHandleNoCrash == FirstHandleEmpty => pc # "panicked"

-----------------------------------------------------------------------------
(* SpecCancel: the watch and one termination signal of the operating       *)
(* system, with the scheduling of the goroutines                           *)

\* the goroutine is inside intr.Run: signal.Notify has registered the
\* channel of its handler, and fn has not returned
InRun(t) == sess[t].pc \in {"loop", "flush", "write", "reset"}

\* the process receives the termination signal, once: it goes to the
\* channels that are registered; with none registered the signal ends the
\* process
Interrupt ==
    /\ pc \in {"watch", "initial", "waiting"}
    /\ \A t \in DOMAIN sess : sess[t].sig = "none"
    /\ IF \E t \in DOMAIN sess : InRun(t)
       THEN /\ sess' = [t \in DOMAIN sess |->
                          IF InRun(t) THEN [sess[t] EXCEPT !.sig = "sent"]
                          ELSE sess[t]]
            /\ UNCHANGED <<pc, runErr>>
       ELSE /\ pc' = "exited"
            /\ runErr' = "signal"
            /\ UNCHANGED sess
    /\ UNCHANGED <<g, registry, idx, task, mux, objs, watchObjs, allErrs, sent, out,
                   errOut, renderVars, outputObjects, hrPrinter, writer, mcWriter>>

\* the goroutine of intr.Run that took the signal from the channel calls
\* h.Signal: under h.once the notify function cancel() and, final being nil,
\* os.Exit(1); nothing when h.Close() has run h.once, fn having returned
HandlerSignal(t) ==
    /\ pc = "waiting"
    /\ sess[t].sig = "sent"
    /\ IF sess[t].pc = "ended"
       THEN /\ sess' = [sess EXCEPT ![t].sig = "dropped"]
            /\ UNCHANGED <<pc, runErr>>
       ELSE /\ sess' = [sess EXCEPT ![t].sig = "handled"]
            /\ pc' = "exited"
            /\ runErr' = "exit 1"
    /\ UNCHANGED <<g, registry, idx, task, mux, objs, watchObjs, allErrs, sent, out,
                   errOut, renderVars, outputObjects, hrPrinter, writer, mcWriter>>

\* the handles of the watch that is interrupted: one item or one list each
CancelObjLists ==
    {[i \in 1..Len(rs) |-> [Cluster |-> WatchClusters[i], r |-> rs[i]]] :
        rs \in SeqsUpTo({Results.item, Results.list}, MaxWatched)}

InitCancel ==
    /\ InitWatch
    /\ watchObjs \in CancelObjLists

NextCancel ==
    \/ WatchSetup
    \/ PrintCurrentObject
    \/ FlushAndWatchMultiClusterObj
    \/ \E t \in DOMAIN sess : SessionObject(t)
    \/ \E t \in DOMAIN sess : SessionWatch(t)
    \/ \E t \in DOMAIN sess : sess[t].delivered < MaxCancelEvents /\ SessionEvent(t)
    \/ \E t \in DOMAIN sess : SessionFlushFormat(t)
    \/ \E t \in DOMAIN sess : SessionFlushWrite(t)
    \/ \E t \in DOMAIN sess : SessionFlushReset(t)
    \/ \E t \in DOMAIN sess : SessionClosed(t)
    \/ Interrupt
    \/ \E t \in DOMAIN sess : HandlerSignal(t)

\* the steps a goroutine takes on its own are taken when the scheduler runs
\* it; the events and the end of a stream are up to the server, the signal
\* is up to the user
Scheduling ==
    \A t \in 1..MaxWatched :
        /\ WF_vars(t \in DOMAIN sess /\ SessionObject(t))
        /\ WF_vars(t \in DOMAIN sess /\ SessionWatch(t))
        /\ WF_vars(t \in DOMAIN sess /\ SessionFlushFormat(t))
        /\ WF_vars(t \in DOMAIN sess /\ SessionFlushWrite(t))
        /\ WF_vars(t \in DOMAIN sess /\ SessionFlushReset(t))
        /\ WF_vars(t \in DOMAIN sess /\ HandlerSignal(t))

SpecCancel == InitCancel /\ [][NextCancel]_vars /\ Scheduling

-----------------------------------------------------------------------------
(* Claims on cancellation and on the join, checked under SpecCancel *)

\* the termination signal has been received
Interrupted ==
    pc = "exited" \/ \E t \in DOMAIN sess : sess[t].sig # "none"

\* the watch loop of the t-th handle runs no more
LoopStopped(t) ==
    pc \in {"exited", "panicked", "returned"} \/ sess[t].pc = "ended"

\* a loop that ended, or that has subscribed, does not subscribe again
NoResubscribe ==
    \A t \in DOMAIN sess :
        /\ t \in DOMAIN sess'
        /\ sess[t].pc = "ended" => sess'[t].pc = "ended"
        /\ InRun(t) => sess'[t].pc \notin {"start", "watch"}

\* what was flushed to g.Out stays as it is
OutputKept == Len(out') >= Len(out) /\ SubSeq(out', 1, Len(out)) = out

\* C25: after the external cancellation signal every per-target watch loop
\* eventually stops, no loop subscribes again or retries, and what was
\* written and flushed before the signal stays in the output unchanged
C25_CancellationStopsEveryLoop ==
    /\ Interrupted ~> (\A t \in DOMAIN sess : LoopStopped(t))
    /\ [][Interrupted => NoResubscribe /\ OutputKept]_vars

\* every goroutine of watchMultiClusterObj has left its watch loop, and
\* watch is in wg.Wait()
AllLoopsEnded ==
    /\ pc = "waiting"
    /\ \A t \in DOMAIN sess : sess[t].pc = "ended"

\* C28: once every per-target watch loop has ended, the join of
\* watchMultiClusterObj is released and watch returns (unless the signal
\* ends the process first): the watch does not block forever
C28_JoinReleased == AllLoopsEnded ~> (pc = "returned" \/ Interrupted)

-----------------------------------------------------------------------------
(* SpecList: the one printObjs call of a list, on the sorted records of    *)
(* the collection, with printers that ToPrinter may fail to build          *)

\* the tables of the records: one row, no row, or no table at all
ListTables == {ServerTable(2, <<ManagedDoc>>), ServerTable(2, <<>>), MalformedObject}

ListObjs == {[Cluster |-> o.Cluster, IsControlPlane |-> o.IsControlPlane,
              Info |-> [Mapping |-> m, Object |-> t]] :
                o \in {x \in Origins : x.Cluster \in {KarmadaName, "member1"}},
                m \in {Mappings.nodes, Mappings.pods, Mappings.deployments},
                t \in ListTables}

\* the record lists Run hands to printObjs: sorted by resource
ListInputs == {os \in SeqsUpTo(ListObjs, MaxListed) : SortedByResource(os)}

\* the errors the collection left in allErrs
ListErrs == {<<>>, <<QueryErr("member1", "failed")>>}

\* the resources ToPrinter builds no printer for
BadPrinters == SUBSET {"nodes", "pods", "deployments"}

\* the options of a list in the table format: the control plane and
\* member1, the control plane alone, or the members scope with no member
\* cluster
ListOptions ==
    {[DefaultOptions EXCEPT !.IsHumanReadablePrinter = TRUE,
                            !.OperationScope = sc[1],
                            !.TargetMemberClusters = sc[2],
                            !.PrintNoHeaders = h,
                            !.IgnoreNotFound = i,
                            !.AllNamespaces = a] :
        sc \in {<<All, <<"member1">>>>, <<KarmadaControlPlane, <<>>>>,
                <<Members, <<>>>>},
        h \in BOOLEAN, i \in BOOLEAN, a \in BOOLEAN}

InitList ==
    /\ CmdIdle
    /\ g \in ListOptions
    /\ podColumns = InitPodColumns
    /\ rowIn = NoRowIn
    /\ rowOut = NoRowOut
    /\ renders = <<>>
    /\ WatchIdle

\* g.printObjs(objs, &allErrs, args) of Run
PrintObjs ==
    /\ renders = <<>>
    /\ \E os \in ListInputs, errs \in ListErrs, bad \in BadPrinters :
         /\ \A i \in DOMAIN os :
               IF os[i].IsControlPlane THEN ContainKarmadaScope(g.OperationScope)
               ELSE os[i].Cluster \in Range(g.TargetMemberClusters)
         /\ LET res == printObjs(g, os, errs, podColumns, bad)
            IN  /\ renders' = <<[objs |-> os, errs |-> errs, bad |-> bad,
                                 out |-> res.out, errOut |-> res.errOut,
                                 allErrs |-> res.allErrs]>>
                /\ podColumns' = res.podColumns
    /\ UNCHANGED <<cmdVars, rowIn, rowOut, watchVars>>

NextList == PrintObjs

SpecList == InitList /\ [][NextList]_vars

-----------------------------------------------------------------------------
(* Claims on the list render, checked under SpecList *)

Rendered == renders # <<>>
ListResources == {"nodes", "pods", "deployments"}

\* the records of one resource in a record list, and their rows
RecordsOf(os, r) == {i \in DOMAIN os : os[i].Info.Mapping.Resource = r}
RECURSIVE RecordRows(_, _)
RecordRows(os, r) ==
    IF os = <<>> THEN 0
    ELSE (IF Head(os).Info.Mapping.Resource = r
          THEN Len(Head(os).Info.Object.Rows) ELSE 0) + RecordRows(Tail(os), r)

\* the lines of the table printed for one resource
TableRows(o, r) == {i \in DOMAIN o : o[i].kind = "row" /\ o[i].Resource = r}
TableHeaders(o, r) == {i \in DOMAIN o : o[i].kind = "header" /\ o[i].Resource = r}

\* C22: the table printed for a resource holds the rows of the records of
\* this resource and no other row, and a resource has at most one table,
\* also when ToPrinter failed for an earlier group
C22_OneKindPerTable ==
    Rendered =>
        \A r \in ListResources :
            /\ Cardinality(TableRows(renders[1].out, r))
                   \in {0, RecordRows(renders[1].objs, r)}
            /\ Cardinality(TableHeaders(renders[1].out, r)) <= 1

\* the blank lines of an output
Blanks(o) == {i \in DOMAIN o : o[i].kind = "blank"}

\* C23: the output of a list has a blank line only when headers are
\* enabled, and then exactly one between the lines of two tables that
\* follow each other: none before the first line, after the last, or next
\* to another blank line
C23_OneSeparatorBetweenGroups ==
    Rendered =>
        LET o == renders[1].out
        IN  /\ g.PrintNoHeaders => Blanks(o) = {}
            /\ 1 \notin Blanks(o)
            /\ Len(o) \notin Blanks(o)
            /\ \A i \in 1..Len(o) - 1 :
                  /\ ~(i \in Blanks(o) /\ i + 1 \in Blanks(o))
                  /\ (~g.PrintNoHeaders /\ i \notin Blanks(o) /\ i + 1 \notin Blanks(o))
                        => o[i].Resource = o[i + 1].Resource

\* the conditions of the diagnostic at the end of a render
NothingToReport ==
    /\ Len(renders[1].out) = 0
    /\ Len(renders[1].allErrs) = 0
    /\ ~g.IgnoreNotFound
AllRequestedNamespaced ==
    /\ ~g.AllNamespaces
    /\ \A i \in DOMAIN renders[1].objs : renders[1].objs[i].Info.Mapping.namespaced

\* the one message of a render with nothing to report, when the
\* no-member-clusters message belongs to the scopes in noMembers
Diagnostic(noMembers) ==
    IF g.OperationScope \in noMembers /\ Len(g.TargetMemberClusters) = 0
    THEN "No member Clusters found in Karmada control plane"
    ELSE IF AllRequestedNamespaced THEN "No resources found in namespace."
    ELSE "No resources found"

DiagnosticIs(noMembers) ==
    /\ Len(renders[1].errOut) = (IF NothingToReport THEN 1 ELSE 0)
    /\ NothingToReport =>
          /\ renders[1].errOut[1] = Diagnostic(noMembers)
          /\ renders[1].allErrs = renders[1].errs

\* C24 as stated: a diagnostic is written exactly when nothing was
\* written, no error occurred and not-found is not ignored; it is one
\* message and no error: the no-member-clusters message when the scope
\* excludes the members and no member cluster is requested, else the
\* namespace message when every requested type is namespaced, else the
\* generic one
C24_DiagnosticScopeExcludesMembers ==
    Rendered => DiagnosticIs({s \in OperationScopes : ~ContainMembersScope(s)})

\* C24 amended: the same, with the no-member-clusters message when the
\* scope excludes the control plane and no member cluster is requested
C24_Diagnostic ==
    Rendered => DiagnosticIs({s \in OperationScopes : ~ContainKarmadaScope(s)})

\* a render of the members scope without any member cluster that wrote the
\* no-member-clusters message
C24_Witness ==
    /\ Rendered
    /\ NothingToReport
    /\ g.OperationScope = Members
    /\ renders[1].errOut = <<"No member Clusters found in Karmada control plane">>

\* the records of a render whose document is no table
Undecodable == {i \in DOMAIN renders[1].objs :
                   renders[1].objs[i].Info.Object.form # "table"}

\* the errors of a render that reconstructionRow returned
DecodeErrors == {i \in DOMAIN renders[1].allErrs : renders[1].allErrs[i].kind = "decode"}

\* the render stopped at the group of the record at i: a decode error is
\* in allErrs, no line of this group or of a later one is on g.Out, and
\* no diagnostic was printed
StoppedAt(i) ==
    /\ Cardinality(DecodeErrors) = 1
    /\ \A k \in DOMAIN renders[1].out :
          \/ renders[1].out[k].kind = "blank"
          \/ Mappings[renders[1].out[k].Resource].rank
                 < renders[1].objs[i].Info.Mapping.rank
    /\ renders[1].errOut = <<>>

\* the first record of a render that does not decode
FirstUndecodable == CHOOSE i \in Undecodable : \A j \in Undecodable : i <= j

WithPrinter == {i \in DOMAIN renders[1].objs :
                   renders[1].objs[i].Info.Mapping.Resource \notin renders[1].bad}

====
